---- MODULE Spec2Model ----
(***************************************************************************)
(* A model of src/app.py: the server-sent-events progress registry         *)
(* (progress_queues, register_progress), the generic proxy (proxy_request) *)
(* and the fixed-upstream handlers (get_policies, get_bundles,             *)
(* update_stage_assignee, get_users).                                      *)
(***************************************************************************)
EXTENDS Integers, Sequences

(***************************************************************************)
(* Bounds of the model.                                                    *)
(***************************************************************************)
MaxConns == 2
MaxSends == 3

VARIABLES
    progress_queues,  \* app.py:32  request id -> the queue registered under it
    queue,            \* contents of the queue.Queue each connection created
    connPc,           \* position of each connection's generate()
    connRid,          \* request_id of each connection
    emitted,          \* SSE events each connection has yielded, in order
    putLog,           \* history: every message ever put on each queue
    prodRid,          \* request id the producer is sending for
    prodRef,          \* queue the producer found under that id
    prodPc,           \* position of the producer between lookup and put
    prodSent,         \* number of sends the producer has attempted
    openAtDone,       \* history: connections streaming when 'done' was put
    pxPc,             \* position of proxy_request: idle, upstream, responded
    pxReq,            \* the inbound /proxy/<path> request
    pxCalls,          \* the requests.request calls made for it, in order
    pxUp,             \* the outcome of the upstream call
    pxResp,           \* the response returned to the caller
    DOMINO_PROJECT_ID,\* app.py:26  os.environ.get("DOMINO_PROJECT_ID", "")
    crPc,             \* position of a fixed-upstream handler
    crReq,            \* the inbound request and the handler it is routed to
    crCalls,          \* the upstream calls the handler has made, in order
    crUp,             \* the outcome of the upstream call
    crResp            \* the response returned to the caller

progressVars == <<progress_queues, queue, connPc, connRid, emitted, putLog,
                  prodRid, prodRef, prodPc, prodSent, openAtDone>>

proxyVars == <<pxPc, pxReq, pxCalls, pxUp, pxResp>>

crudVars == <<DOMINO_PROJECT_ID, crPc, crReq, crCalls, crUp, crResp>>

vars == <<progressVars, proxyVars, crudVars>>

(***************************************************************************)
(* The progress registry.                                                  *)
(***************************************************************************)
RequestIds == {"r1", "r2"}
Conns == 1..MaxConns
NoQueue == 0
NoRid == "none"

\* Progress messages are dicts; generate() reads only their 'done' field.
Msgs == { [step |-> 1, done |-> FALSE],
          [step |-> 2, done |-> FALSE],
          [step |-> 0, done |-> TRUE] }

\* A connection whose generate() is inside the try block.
Streaming == {"waiting", "yielding"}
Ended == {"finished", "closed"}

\* queue.Queue.get(): the oldest message and the queue without it.
QueueGetLifo(q) == [data |-> q[Len(q)], rest |-> SubSeq(q, 1, Len(q) - 1)]
QueueGet(q) == [data |-> Head(q), rest |-> Tail(q)]

\* data.get('done') of generate().
IsDone(data) == data.done

\* The finally block of generate(): if request_id in progress_queues: del.
Unregister(pq, rid) == [pq EXCEPT ![rid] = NoQueue]

ProgressIdle ==
    /\ progress_queues = [r \in RequestIds |-> NoQueue]
    /\ queue = [c \in Conns |-> <<>>]
    /\ connPc = [c \in Conns |-> "unopened"]
    /\ connRid = [c \in Conns |-> NoRid]
    /\ emitted = [c \in Conns |-> <<>>]
    /\ putLog = [c \in Conns |-> <<>>]
    /\ prodRid = NoRid
    /\ prodRef = NoQueue
    /\ prodPc = "lookup"
    /\ prodSent = 0
    /\ openAtDone = {}

\* GET /register-progress/<request_id>: the view returns Response(generate());
\* the generator exists but has not run a line yet.
Connect(c, r) ==
    /\ connPc[c] = "unopened"
    \* Connections are numbered in the order they open, and the first one
    \* names the id "r1": every other run is one of these with connections
    \* or ids renamed.
    /\ \A d \in Conns : d < c => connPc[d] # "unopened"
    /\ c = 1 => r = "r1"
    /\ connPc' = [connPc EXCEPT ![c] = "created"]
    /\ connRid' = [connRid EXCEPT ![c] = r]
    /\ UNCHANGED <<progress_queues, queue, emitted, putLog,
                   prodRid, prodRef, prodPc, prodSent, openAtDone, proxyVars, crudVars>>

\* First iteration of generate(): q = queue.Queue(); progress_queues[id] = q.
GenStart(c) ==
    /\ connPc[c] = "created"
    /\ queue' = [queue EXCEPT ![c] = <<>>]
    /\ progress_queues' = [progress_queues EXCEPT ![connRid[c]] = c]
    /\ connPc' = [connPc EXCEPT ![c] = "waiting"]
    /\ UNCHANGED <<connRid, emitted, putLog,
                   prodRid, prodRef, prodPc, prodSent, openAtDone, proxyVars, crudVars>>

\* data = q.get(); a 'done' message breaks the loop and runs the finally
\* block, any other message is yielded as an SSE event.
GenGet(c) ==
    /\ connPc[c] = "waiting"
    /\ queue[c] # <<>>
    /\ LET got == QueueGet(queue[c]) IN
        /\ queue' = [queue EXCEPT ![c] = got.rest]
        /\ IF IsDone(got.data)
             THEN /\ connPc' = [connPc EXCEPT ![c] = "finished"]
                  /\ progress_queues' = Unregister(progress_queues, connRid[c])
                  /\ UNCHANGED emitted
             ELSE /\ connPc' = [connPc EXCEPT ![c] = "yielding"]
                  /\ emitted' = [emitted EXCEPT ![c] = Append(@, got.data)]
                  /\ UNCHANGED progress_queues
    /\ UNCHANGED <<connRid, putLog, prodRid, prodRef, prodPc, prodSent,
                   openAtDone, proxyVars, crudVars>>

\* The server asks for the next event: generate() resumes after the yield.
GenResume(c) ==
    /\ connPc[c] = "yielding"
    /\ connPc' = [connPc EXCEPT ![c] = "waiting"]
    /\ UNCHANGED <<progress_queues, queue, connRid, emitted, putLog,
                   prodRid, prodRef, prodPc, prodSent, openAtDone, proxyVars, crudVars>>

\* The server closes the generator at its yield (the client went away):
\* GeneratorExit is raised there and the finally block runs.
GenClose(c) ==
    /\ connPc[c] = "yielding"
    /\ connPc' = [connPc EXCEPT ![c] = "closed"]
    /\ progress_queues' = Unregister(progress_queues, connRid[c])
    /\ UNCHANGED <<queue, connRid, emitted, putLog,
                   prodRid, prodRef, prodPc, prodSent, openAtDone, proxyVars, crudVars>>

\* A generator closed before its first iteration runs none of its body.
GenCloseUnstarted(c) ==
    /\ connPc[c] = "created"
    /\ connPc' = [connPc EXCEPT ![c] = "closed"]
    /\ UNCHANGED <<progress_queues, queue, connRid, emitted, putLog,
                   prodRid, prodRef, prodPc, prodSent, openAtDone, proxyVars, crudVars>>

\* The producer (register_model_handler, handed progress_queues) evaluates
\* progress_queues[request_id] ...
ProducerLookup(r) ==
    /\ prodPc = "lookup"
    /\ prodSent < MaxSends
    /\ prodRid' = r
    /\ prodRef' = progress_queues[r]
    /\ prodPc' = "put"
    /\ UNCHANGED <<progress_queues, queue, connPc, connRid, emitted, putLog,
                   prodSent, openAtDone, proxyVars, crudVars>>

\* ... and puts a message on the queue it found.
ProducerPut(m) ==
    /\ prodPc = "put"
    /\ prodRef # NoQueue
    /\ queue' = [queue EXCEPT ![prodRef] = Append(@, m)]
    /\ putLog' = [putLog EXCEPT ![prodRef] = Append(@, m)]
    /\ prodSent' = prodSent + 1
    /\ prodPc' = "lookup"
    /\ openAtDone' = IF m.done
                       THEN openAtDone \cup
                            {c \in Conns : /\ connRid[c] = prodRid
                                           /\ connPc[c] \in Streaming}
                       ELSE openAtDone
    /\ UNCHANGED <<progress_queues, connPc, connRid, emitted, prodRef, prodRid,
                   proxyVars, crudVars>>

\* No queue is registered under the id: the message is not sent.
ProducerDrop ==
    /\ prodPc = "put"
    /\ prodRef = NoQueue
    /\ prodSent' = prodSent + 1
    /\ prodPc' = "lookup"
    /\ UNCHANGED <<progress_queues, queue, connPc, connRid, emitted, putLog,
                   prodRef, prodRid, openAtDone, proxyVars, crudVars>>

(***************************************************************************)
(* The proxy: proxy_request.                                               *)
(*                                                                         *)
(* Strings that the handler takes apart (the target, the path, URLs) are   *)
(* sequences of tokens: a scheme with its colon, "//" with the authority,  *)
(* "/", and path segments.                                                 *)
(***************************************************************************)
MaxPathSegs == 2
MaxArgs == 2

STATUS_NO_CONTENT == 204
STATUS_BAD_REQUEST == 400
STATUS_BAD_GATEWAY == 502
STATUS_SERVER_ERROR == 500
STATUS_OK == 200
ERROR_STATUS_FLOOR == 400

\* methods=[...] of the /proxy/<path:path> route.
ProxyMethods == {"GET", "POST", "PUT", "DELETE", "PATCH", "OPTIONS"}

Slash == "/"
SchemeTokens == {"https:", "ftp:"}
NetlocTokens == {"//h"}
\* "//[" opens an IPv6 literal that is never closed: urlsplit raises ValueError.
BadNetlocTokens == {"//["}
SegTokens == {"a", ".."}

\* urllib.parse.uses_relative and uses_netloc, as far as the schemes above go.
uses_relative == {"https:", "ftp:", ""}
uses_netloc == {"https:", "ftp:", ""}

RECURSIVE Rstrip(_)
\* str.rstrip("/")
Rstrip(u) ==
    IF u # <<>> /\ u[Len(u)] = Slash THEN Rstrip(SubSeq(u, 1, Len(u) - 1))
    ELSE u

\* urlparse(url, default_scheme): scheme, netloc and path of a URL.
UrlParse(u, default) ==
    LET hasScheme == u # <<>> /\ Head(u) \in SchemeTokens
        rest == IF hasScheme THEN Tail(u) ELSE u
        hasNetloc == rest # <<>> /\ Head(rest) \in NetlocTokens \cup BadNetlocTokens
    IN  [ scheme |-> IF hasScheme THEN Head(u) ELSE default,
          netloc |-> IF hasNetloc THEN Head(rest) ELSE "",
          path |-> IF hasNetloc THEN Tail(rest) ELSE rest ]

\* urlsplit raises ValueError("Invalid IPv6 URL") on such an authority.
UrlParseRaises(u) == UrlParse(u, "").netloc \in BadNetlocTokens

RECURSIVE SplitSlash(_)
\* str.split('/'): "" stands for an empty part.
SplitSlash(p) ==
    IF p = <<>> THEN <<"">>
    ELSE IF Head(p) = Slash THEN <<"">> \o SplitSlash(Tail(p))
    ELSE LET more == SplitSlash(Tail(p)) IN <<Head(p)>> \o Tail(more)

RECURSIVE JoinSlash(_)
\* '/'.join(parts)
JoinSlash(parts) ==
    IF parts = <<>> THEN <<>>
    ELSE LET h == IF Head(parts) = "" THEN <<>> ELSE <<Head(parts)>> IN
         IF Len(parts) = 1 THEN h
         ELSE h \o <<Slash>> \o JoinSlash(Tail(parts))

\* segments[1:-1] = filter(None, segments[1:-1])
FilterInner(segs) ==
    IF Len(segs) <= 2 THEN segs
    ELSE <<Head(segs)>>
         \o SelectSeq(SubSeq(segs, 2, Len(segs) - 1), LAMBDA x : x # "")
         \o <<segs[Len(segs)]>>

RECURSIVE ResolveDots(_, _)
\* The loop of urljoin that removes "." and lets ".." pop a segment.
ResolveDots(segs, acc) ==
    IF segs = <<>> THEN acc
    ELSE LET seg == Head(segs) IN
         IF seg = ".." THEN
             ResolveDots(Tail(segs),
                         IF acc = <<>> THEN acc ELSE SubSeq(acc, 1, Len(acc) - 1))
         ELSE IF seg = "." THEN ResolveDots(Tail(segs), acc)
         ELSE ResolveDots(Tail(segs), Append(acc, seg))

\* urlunparse((scheme, netloc, path, ...))
UrlUnparse(scheme, netloc, path) ==
    LET p == IF netloc # "" /\ path # <<>> /\ Head(path) # Slash
               THEN <<Slash>> \o path ELSE path
    IN  (IF scheme = "" THEN <<>> ELSE <<scheme>>)
        \o (IF netloc = "" THEN <<>> ELSE <<netloc>>)
        \o p

\* urllib.parse.urljoin(base, url), for a base it can parse.
UrlJoin(base, url) ==
    IF base = <<>> THEN url
    ELSE IF url = <<>> THEN base
    ELSE
      LET b == UrlParse(base, "")
          u == UrlParse(url, b.scheme)
      IN
      IF u.scheme # b.scheme \/ u.scheme \notin uses_relative THEN url
      ELSE IF u.scheme \in uses_netloc /\ u.netloc # ""
        THEN UrlUnparse(u.scheme, u.netloc, u.path)
      ELSE IF u.path = <<>> THEN UrlUnparse(u.scheme, b.netloc, b.path)
      ELSE
        LET bparts == SplitSlash(b.path)
            base_parts == IF bparts[Len(bparts)] # ""
                            THEN SubSeq(bparts, 1, Len(bparts) - 1) ELSE bparts
            segments == IF Head(u.path) = Slash THEN SplitSlash(u.path)
                        ELSE FilterInner(base_parts \o SplitSlash(u.path))
            resolved == ResolveDots(segments, <<>>)
            resolved_path ==
                IF segments[Len(segments)] \in {".", ".."}
                  THEN Append(resolved, "") ELSE resolved
            joined == JoinSlash(resolved_path)
        IN UrlUnparse(u.scheme, b.netloc,
                      IF joined = <<>> THEN <<Slash>> ELSE joined)

\* str.lower() of the header names, in the casings they may arrive in.
Lower(name) ==
    CASE name = "Host" -> "host"
      [] name = "AUTHORIZATION" -> "authorization"
      [] name = "keep-alive" -> "keep-alive"
      [] name = "X-Custom" -> "x-custom"
      [] name = "Content-Encoding" -> "content-encoding"
      [] name = "CONNECTION" -> "connection"

skip_headers == {"host", "content-length", "transfer-encoding", "connection",
                 "keep-alive", "authorization"}
hop_by_hop == {"content-encoding", "transfer-encoding", "connection", "keep-alive"}

\* forward_headers: the inbound headers whose lowered name is not skipped.
ForwardHeaders(headers) == {h \in headers : Lower(h) \notin skip_headers}
\* response_headers: the upstream headers that are not hop-by-hop.
ResponseHeaders(headers) == {h \in headers : Lower(h) \notin hop_by_hop}

\* request.args is a MultiDict: a sequence of [k, v] pairs in query order.
\* request.args.get(key): the first value of the key, or None.
ArgsGet(args, key) ==
    IF \E i \in 1..Len(args) : args[i].k = key
      THEN LET i == CHOOSE i \in 1..Len(args) :
                        /\ args[i].k = key
                        /\ \A j \in 1..(i - 1) : args[j].k # key
           IN [some |-> TRUE, v |-> args[i].v]
      ELSE [some |-> FALSE, v |-> <<>>]

\* Python truth of the value: neither None nor the empty string.
Truthy(x) == x.some /\ x.v # <<>>

\* request.args.items(): one pair per key, with the key's first value.
ArgsItems(args) ==
    LET firstAt(i) == \A j \in 1..(i - 1) : args[j].k # args[i].k
        idx == {i \in 1..Len(args) : firstAt(i)}
        RECURSIVE pick(_)
        pick(i) == IF i > Len(args) THEN <<>>
                   ELSE (IF i \in idx THEN <<args[i]>> ELSE <<>>) \o pick(i + 1)
    IN pick(1)

\* upstream_params: the items whose key is not 'target'.
UpstreamParams(args) == SelectSeq(ArgsItems(args), LAMBDA p : p.k # "target")

\* upstream_url = urljoin(target_base.rstrip("/") + "/", path)
UpstreamUrl(target_base, path) == UrlJoin(Rstrip(target_base) \o <<Slash>>, path)

\* The arguments of the requests.request call.
UpstreamRequest(req) ==
    [ method |-> req.method,
      url |-> UpstreamUrl(ArgsGet(req.args, "target").v, req.path),
      params |-> UpstreamParams(req.args),
      headers |-> ForwardHeaders(req.headers) ]

NoResp == [status |-> 0, kind |-> "none", headers |-> {}]
NoUp == [kind |-> "none", status |-> 0, headers |-> {}, contentRaises |-> FALSE]
NoReq == [method |-> "none", path |-> <<>>, args |-> <<>>, headers |-> {},
          bodyRaises |-> FALSE]

JsonError(status) == [status |-> status, kind |-> "json_error", headers |-> {}]

\* What proxy_request returns before it reaches requests.request, if it does.
EarlyResponseForwardOptions(req) ==
    LET target_base == ArgsGet(req.args, "target") IN
    IF ~Truthy(target_base) THEN JsonError(STATUS_BAD_REQUEST)
    ELSE IF UrlParseRaises(Rstrip(target_base.v) \o <<Slash>>)
      THEN [status |-> STATUS_SERVER_ERROR, kind |-> "unhandled", headers |-> {}]
    ELSE IF req.bodyRaises THEN JsonError(STATUS_SERVER_ERROR)
    ELSE NoResp
EarlyResponse(req) ==
    LET target_base == ArgsGet(req.args, "target") IN
    IF req.method = "OPTIONS"
      THEN [status |-> STATUS_NO_CONTENT, kind |-> "empty", headers |-> {}]
    ELSE IF ~Truthy(target_base) THEN JsonError(STATUS_BAD_REQUEST)
    \* urljoin raises outside the try block: the framework answers 500.
    ELSE IF UrlParseRaises(Rstrip(target_base.v) \o <<Slash>>)
      THEN [status |-> STATUS_SERVER_ERROR, kind |-> "unhandled", headers |-> {}]
    \* request.get_data() raises inside the try block: except Exception.
    ELSE IF req.bodyRaises THEN JsonError(STATUS_SERVER_ERROR)
    ELSE NoResp

\* The response for an outcome of the upstream call.
UpstreamResponseNoBadGateway(up) ==
    IF up.kind = "response"
      THEN [ status |-> up.status,
             kind |-> IF up.status >= ERROR_STATUS_FLOOR /\ ~up.contentRaises
                        THEN "upstream_content" ELSE "upstream_stream",
             headers |-> ResponseHeaders(up.headers) ]
    ELSE JsonError(STATUS_SERVER_ERROR)
UpstreamResponse(up) ==
    IF up.kind = "response"
      THEN [ status |-> up.status,
             \* status >= 400: the body is read and returned, unless reading
             \* it raises; otherwise the body is streamed with iter_content.
             kind |-> IF up.status >= ERROR_STATUS_FLOOR /\ ~up.contentRaises
                        THEN "upstream_content" ELSE "upstream_stream",
             headers |-> ResponseHeaders(up.headers) ]
    ELSE IF up.kind = "request_exception" THEN JsonError(STATUS_BAD_GATEWAY)
    ELSE JsonError(STATUS_SERVER_ERROR)

RECURSIVE SeqsUpTo(_, _)
\* The sequences over S of length at most n.
SeqsUpTo(S, n) ==
    IF n = 0 THEN {<<>>}
    ELSE LET shorter == SeqsUpTo(S, n - 1) IN
         shorter \cup {Append(q, x) : q \in shorter, x \in S}

\* The values of ?target=: empty, unparsable, and bases with and without a
\* path and trailing slashes.
TargetValues ==
    { <<>>, <<"https:", "//[">>,
      <<"https:", "//h">>, <<"https:", "//h", Slash, "v1", Slash, Slash>> }

\* The paths the route accepts: non-empty, not starting with a slash.
PathSegLists == SeqsUpTo(SegTokens, MaxPathSegs) \ {<<>>}
PathValues ==
    { pre \o JoinSlash(segs) : pre \in {<<>>, <<"ftp:">>, <<"https:">>},
                               segs \in PathSegLists }

OtherArgs == { [k |-> "a", v |-> <<"1">>], [k |-> "a", v |-> <<"2">>] }
ArgsValues ==
    { t \o others :
        t \in {<<>>} \cup {<<[k |-> "target", v |-> tv]>> : tv \in TargetValues},
        others \in SeqsUpTo(OtherArgs, MaxArgs) }

InboundHeaderSets == SUBSET {"AUTHORIZATION", "keep-alive", "X-Custom"}
UpstreamHeaderSets == SUBSET {"Content-Encoding", "X-Custom"}
UpstreamStatuses == {200, 404}

ProxyInputs ==
    [ method : ProxyMethods, path : PathValues, args : ArgsValues,
      headers : InboundHeaderSets, bodyRaises : BOOLEAN ]

\* Reading the body can raise only where the handler reads it: status >= 400.
UpstreamResponses ==
    { up \in [ kind : {"response"}, status : UpstreamStatuses,
               headers : UpstreamHeaderSets, contentRaises : BOOLEAN ] :
        up.contentRaises => up.status >= ERROR_STATUS_FLOOR }
UpstreamFailures ==
    [ kind : {"request_exception", "other_exception"}, status : {0},
      headers : {{}}, contentRaises : {FALSE} ]

ProxyIdle ==
    /\ pxPc = "idle"
    /\ pxReq = NoReq
    /\ pxCalls = <<>>
    /\ pxUp = NoUp
    /\ pxResp = NoResp

\* proxy_request up to its return or its call of requests.request.
ProxyRequest ==
    /\ pxPc = "idle"
    /\ \E req \in ProxyInputs :
         /\ pxReq' = req
         /\ LET early == EarlyResponse(req) IN
              IF early # NoResp
                THEN /\ pxPc' = "responded"
                     /\ pxResp' = early
                     /\ UNCHANGED pxCalls
                ELSE /\ pxPc' = "upstream"
                     /\ pxCalls' = Append(pxCalls, UpstreamRequest(req))
                     /\ UNCHANGED pxResp
    /\ UNCHANGED <<pxUp, progressVars, crudVars>>

\* requests.request returns a response (stream=True: the body is not read).
ProxyUpstreamResponds ==
    /\ pxPc = "upstream"
    /\ \E up \in UpstreamResponses :
         /\ pxUp' = up
         /\ pxResp' = UpstreamResponse(up)
    /\ pxPc' = "responded"
    /\ UNCHANGED <<pxReq, pxCalls, progressVars, crudVars>>

\* requests.request raises: a RequestException or anything else.
ProxyUpstreamRaises ==
    /\ pxPc = "upstream"
    /\ \E up \in UpstreamFailures :
         /\ pxUp' = up
         /\ pxResp' = UpstreamResponse(up)
    /\ pxPc' = "responded"
    /\ UNCHANGED <<pxReq, pxCalls, progressVars, crudVars>>

NextProxy ==
    \/ ProxyRequest
    \/ ProxyUpstreamResponds
    \/ ProxyUpstreamRaises

(***************************************************************************)
(* The fixed-upstream handlers: get_policies, get_bundles,                 *)
(* update_stage_assignee, get_users.                                       *)
(***************************************************************************)
BundleIds == {"b1", "b2"}
StageIds == {"s1", "s2"}

\* dict.get(key) of a key the dict lacks is None.
Absent == "<absent>"
\* Python truth of a field of the JSON body: present and not empty.
FieldTruthy(v) == v \notin {Absent, ""}

\* The body of the PUT as request.get_json() meets it:
\*   object     a JSON object with the fields given
\*   falsy      a falsy JSON value (null, [], 0): replaced by {}
\*   non_object a truthy JSON value that is no object, such as a non-empty
\*              array: it has no .get
\*   malformed  not JSON: get_json raises BadRequest
\*   absent     no JSON body: get_json returns None or raises, by version
PutBodies ==
    [ kind : {"object"}, assigneeId : {Absent, "", "u1"},
      assigneeName : {Absent, "", "Ann"} ]
    \cup [ kind : {"falsy", "non_object", "malformed", "absent"},
           assigneeId : {Absent}, assigneeName : {Absent} ]
NoBody == [kind |-> "none", assigneeId |-> Absent, assigneeName |-> Absent]

\* request.get_json() raises, or data.get raises on what it returned.
ReadBodyRaises(body, absentRaises) ==
    \/ body.kind \in {"malformed", "non_object"}
    \/ body.kind = "absent" /\ absentRaises

NullAssignee == [id |-> "<null>", name |-> "<null>"]
\* payload: the assignee object if both fields are truthy, else null.
AssigneePayloadEither(assignee_id, assignee_name) ==
    IF FieldTruthy(assignee_id) \/ FieldTruthy(assignee_name)
      THEN [assignee |-> [id |-> assignee_id, name |-> assignee_name]]
      ELSE [assignee |-> NullAssignee]
AssigneePayload(assignee_id, assignee_name) ==
    IF FieldTruthy(assignee_id) /\ FieldTruthy(assignee_name)
      THEN [assignee |-> [id |-> assignee_id, name |-> assignee_name]]
      ELSE [assignee |-> NullAssignee]
NoPayload == [assignee |-> [id |-> "<none>", name |-> "<none>"]]

\* The upstream paths under https://{DOMINO_DOMAIN}/.
PoliciesUrl == <<"api", "governance", "v1", "policy-overviews">>
BundlesUrl == <<"api", "governance", "v1", "bundles">>
StageUrl(bundle_id, stage_id) ==
    <<"api", "governance", "v1", "bundles", bundle_id, "stages", stage_id>>
CollaboratorsUrl(project_id) == <<"v4", "projects", project_id, "collaborators">>

\* The upstream call of each handler.
CrudCall(req) ==
    CASE req.handler = "get_policies" ->
           [method |-> "GET", url |-> PoliciesUrl, payload |-> NoPayload]
      [] req.handler = "get_bundles" ->
           [method |-> "GET", url |-> BundlesUrl, payload |-> NoPayload]
      [] req.handler = "get_users" ->
           [method |-> "GET", url |-> CollaboratorsUrl(DOMINO_PROJECT_ID),
            payload |-> NoPayload]
      [] req.handler = "update_stage_assignee" ->
           [method |-> "PATCH", url |-> StageUrl(req.bundle_id, req.stage_id),
            payload |-> AssigneePayload(req.body.assigneeId,
                                        req.body.assigneeName)]

\* requests.Response.ok: raise_for_status raises for 400 <= status < 600.
ResponseOk(status) == ~(400 <= status /\ status < 600)

\* Upstream bodies: JSON objects and arrays of several shapes, a body that
\* is not JSON, and an empty body.
UpstreamBodies == {"{}", "{data:[]}", "{data:5}", "[]", "[{}]", "[1]",
                   "not json", ""}

\* Handling an OK response raises: response.json() rejects the body, or the
\* handler reads the decoded value as a shape it does not have.
ProcessingRaises(handler, body) ==
    CASE handler \in {"get_policies", "get_bundles"} ->
           \* data.get('data', []) and len() of it
           body \in {"not json", "", "[]", "[{}]", "[1]", "{data:5}"}
      [] handler = "get_users" ->
           \* for person in collaborators: person.get(...)
           body \in {"not json", "", "{data:[]}", "{data:5}", "[1]"}
      [] handler = "update_stage_assignee" ->
           \* response.json() if response.content else {"success": True}
           body = "not json"

JsonErrorBody == [shape |-> "error", of |-> ""]
\* The JSON a handler answers with after an OK response.
OkJson(handler, body) ==
    CASE handler \in {"get_policies", "get_bundles"} ->
           [shape |-> "relay", of |-> body]
      [] handler = "get_users" -> [shape |-> "users", of |-> body]
      [] handler = "update_stage_assignee" ->
           IF body = "" THEN [shape |-> "success", of |-> ""]
           ELSE [shape |-> "relay", of |-> body]

\* The response of a handler for an outcome of its upstream call.
CrudResponseErrorsAs500(handler, up) ==
    IF up.kind # "response" THEN [status |-> 500, json |-> JsonErrorBody]
    ELSE IF ~ResponseOk(up.status) THEN [status |-> 500, json |-> JsonErrorBody]
    ELSE IF ProcessingRaises(handler, up.body)
      THEN [status |-> 500, json |-> JsonErrorBody]
    ELSE [status |-> 200, json |-> OkJson(handler, up.body)]
CrudResponse(handler, up) ==
    IF up.kind # "response"
      THEN [status |-> STATUS_SERVER_ERROR, json |-> JsonErrorBody]
    ELSE IF ~ResponseOk(up.status)
      THEN [status |-> up.status, json |-> JsonErrorBody]
    ELSE IF ProcessingRaises(handler, up.body)
      THEN [status |-> STATUS_SERVER_ERROR, json |-> JsonErrorBody]
    ELSE [status |-> STATUS_OK, json |-> OkJson(handler, up.body)]

NoCrudReq == [handler |-> "none", bundle_id |-> "", stage_id |-> "",
              body |-> NoBody, absentRaises |-> FALSE]
NoCrudUp == [kind |-> "none", status |-> 0, body |-> ""]
NoCrudResp == [status |-> 0, json |-> [shape |-> "none", of |-> ""]]

CrudInputs ==
    [ handler : {"get_policies", "get_bundles", "get_users"},
      bundle_id : {""}, stage_id : {""}, body : {NoBody},
      absentRaises : {FALSE} ]
    \cup { r \in [ handler : {"update_stage_assignee"}, bundle_id : BundleIds,
                  stage_id : StageIds, body : PutBodies,
                  absentRaises : BOOLEAN ] :
             r.absentRaises => r.body.kind = "absent" }

CrudUpstreamResponses ==
    [kind : {"response"}, status : {200, 201, 404, 503}, body : UpstreamBodies]
CrudUpstreamFailures ==
    [kind : {"request_exception", "other_exception"}, status : {0}, body : {""}]

\* The handler answers before it calls the upstream.
CrudEarlyError(req) ==
    \/ req.handler = "get_users" /\ DOMINO_PROJECT_ID = ""
    \/ /\ req.handler = "update_stage_assignee"
       /\ ReadBodyRaises(req.body, req.absentRaises)

CrudIdle ==
    /\ DOMINO_PROJECT_ID \in {"", "p1"}
    /\ crPc = "idle"
    /\ crReq = NoCrudReq
    /\ crCalls = <<>>
    /\ crUp = NoCrudUp
    /\ crResp = NoCrudResp

\* A handler up to its return or its upstream call.
CrudRequest ==
    /\ crPc = "idle"
    /\ \E req \in CrudInputs :
         /\ crReq' = req
         /\ IF CrudEarlyError(req)
              THEN /\ crPc' = "responded"
                   /\ crResp' = [status |-> STATUS_SERVER_ERROR,
                                 json |-> JsonErrorBody]
                   /\ UNCHANGED crCalls
              ELSE /\ crPc' = "upstream"
                   /\ crCalls' = Append(crCalls, CrudCall(req))
                   /\ UNCHANGED crResp
    /\ UNCHANGED <<DOMINO_PROJECT_ID, crUp, progressVars, proxyVars>>

\* The upstream call returns a response.
CrudUpstreamResponds ==
    /\ crPc = "upstream"
    /\ \E up \in CrudUpstreamResponses :
         /\ crUp' = up
         /\ crResp' = CrudResponse(crReq.handler, up)
    /\ crPc' = "responded"
    /\ UNCHANGED <<DOMINO_PROJECT_ID, crReq, crCalls, progressVars, proxyVars>>

\* The upstream call raises: a RequestException or anything else.
CrudUpstreamRaises ==
    /\ crPc = "upstream"
    /\ \E up \in CrudUpstreamFailures :
         /\ crUp' = up
         /\ crResp' = CrudResponse(crReq.handler, up)
    /\ crPc' = "responded"
    /\ UNCHANGED <<DOMINO_PROJECT_ID, crReq, crCalls, progressVars, proxyVars>>

NextCrud ==
    \/ CrudRequest
    \/ CrudUpstreamResponds
    \/ CrudUpstreamRaises

(***************************************************************************)
(* Specifications: one for each part of the program.                       *)
(***************************************************************************)
NextProgress ==
    \/ \E c \in Conns, r \in RequestIds : Connect(c, r)
    \/ \E c \in Conns : GenStart(c)
    \/ \E c \in Conns : GenGet(c)
    \/ \E c \in Conns : GenResume(c)
    \/ \E c \in Conns : GenClose(c)
    \/ \E c \in Conns : GenCloseUnstarted(c)
    \/ \E r \in RequestIds : ProducerLookup(r)
    \/ \E m \in Msgs : ProducerPut(m)
    \/ ProducerDrop

\* DOMINO_PROJECT_ID is read once from the environment; these parts of the
\* program never read it.
InitProgress == ProgressIdle /\ ProxyIdle /\ CrudIdle /\ DOMINO_PROJECT_ID = ""

SpecProgress == InitProgress /\ [][NextProgress]_vars

\* Each connection is served by its own thread, so an enabled step of its
\* generator is eventually taken; a producer that has looked the queue up
\* completes its put.  The producer is not obliged to send again.
FairSpecProgress ==
    /\ SpecProgress
    /\ \A c \in Conns :
          WF_vars(GenStart(c)) /\ WF_vars(GenGet(c)) /\ WF_vars(GenResume(c))
    /\ WF_vars(\E m \in Msgs : ProducerPut(m))
    /\ WF_vars(ProducerDrop)

InitProxy == ProgressIdle /\ ProxyIdle /\ CrudIdle /\ DOMINO_PROJECT_ID = ""

SpecProxy == InitProxy /\ [][NextProxy]_vars

InitCrud == ProgressIdle /\ ProxyIdle /\ CrudIdle

SpecCrud == InitCrud /\ [][NextCrud]_vars

(***************************************************************************)
(* Claims about the progress registry.                                     *)
(***************************************************************************)
RECURSIVE BeforeFirstDone(_)
\* The messages of s that precede its first 'done' message.
BeforeFirstDone(s) ==
    IF s = <<>> \/ Head(s).done THEN <<>>
    ELSE <<Head(s)>> \o BeforeFirstDone(Tail(s))

IsPrefix(a, b) == Len(a) <= Len(b) /\ a = SubSeq(b, 1, Len(a))

\* C1: every connection that is streaming for a request id is the one whose
\* queue is registered under that id, so each streaming connection waits on
\* a queue the producers can reach through progress_queues.
C1_StreamingConnIsRegistered ==
    \A c \in Conns :
        connPc[c] \in Streaming => progress_queues[connRid[c]] = c

\* The messages a connection has taken off its queue so far.
Consumed(c) == SubSeq(putLog[c], 1, Len(putLog[c]) - Len(queue[c]))

\* C6: the events a connection has emitted are, in order and each once, the
\* messages put on its queue before the first 'done' message; the 'done'
\* message and the messages after it are never emitted, every message taken
\* off the queue before 'done' has been emitted, and a stream that ended on
\* 'done' has emitted all of the messages put before it.
C6_EmitsMessagesBeforeDone ==
    \A c \in Conns :
        /\ IsPrefix(emitted[c], BeforeFirstDone(putLog[c]))
        /\ emitted[c] = BeforeFirstDone(Consumed(c))
        /\ connPc[c] = "finished" => emitted[c] = BeforeFirstDone(putLog[c])

\* A stream ended on 'done' after emitting an event, with a message put on
\* its queue after the 'done' message.
C6_Witness ==
    \E c \in Conns :
        /\ connPc[c] = "finished"
        /\ Len(emitted[c]) >= 1
        /\ Len(putLog[c]) > Len(emitted[c]) + 1

\* C8: the end of one stream never removes the registry entry of another
\* stream that is still open, and once every stream of a request id has
\* ended progress_queues has no entry for that id.
C8_EndRemovesOnlyOwnEntry ==
    /\ [](\A r \in RequestIds :
            (\A c \in Conns : connRid[c] = r => connPc[c] \in Ended)
                => progress_queues[r] = NoQueue)
    /\ [][\A c, d \in Conns :
            ( /\ c # d
              /\ connPc[c] \notin Ended
              /\ connPc'[c] \in Ended
              /\ connPc[d] \in Streaming
              /\ progress_queues[connRid[d]] = d )
                => progress_queues'[connRid[d]] = d]_vars

\* C9: every connection that was streaming for a request id when the
\* producer put a 'done' message on the queue it found under that id
\* eventually ends its stream.
C9_StreamEventuallyEnds ==
    \A c \in Conns : (c \in openAtDone) ~> (connPc[c] \in Ended)

(***************************************************************************)
(* Claims about the proxy.                                                 *)
(***************************************************************************)
TargetOf(req) == ArgsGet(req.args, "target")

ReachesUpstream(req) ==
    /\ TargetOf(req).v # <<"https:", "//[">>
    /\ ~req.bodyRaises

C3_UpstreamUrlIsBaseSlashPath ==
    \A i \in 1..Len(pxCalls) :
        /\ pxCalls[i].method = pxReq.method
        /\ pxCalls[i].url
             = Rstrip(TargetOf(pxReq).v) \o <<Slash>> \o pxReq.path

SeqElems(q) == {q[i] : i \in 1..Len(q)}

\* C4: the upstream request carries no skipped header and no 'target'
\* parameter and carries every other inbound header and query parameter;
\* the response carries no hop-by-hop header of the upstream response and
\* carries every other one.
C4_FiltersBothDirections ==
    /\ \A i \in 1..Len(pxCalls) :
         /\ \A h \in pxCalls[i].headers :
              Lower(h) \notin {"host", "content-length", "transfer-encoding",
                               "connection", "keep-alive", "authorization"}
         /\ \A h \in pxReq.headers :
              Lower(h) \notin {"host", "content-length", "transfer-encoding",
                               "connection", "keep-alive", "authorization"}
                 => h \in pxCalls[i].headers
         /\ \A p \in SeqElems(pxCalls[i].params) : p.k # "target"
         /\ \A p \in SeqElems(pxReq.args) :
              p.k # "target" => p \in SeqElems(pxCalls[i].params)
    /\ (pxPc = "responded" /\ pxUp.kind = "response") =>
         /\ \A h \in pxResp.headers :
              Lower(h) \notin {"content-encoding", "transfer-encoding",
                               "connection", "keep-alive"}
         /\ \A h \in pxUp.headers :
              Lower(h) \notin {"content-encoding", "transfer-encoding",
                               "connection", "keep-alive"}
                 => h \in pxResp.headers

\* C7: an upstream response is relayed with exactly its status code and its
\* body, a RequestException is answered 502 with a JSON error, any other
\* exception 500 with a JSON error, and every outcome is answered.
C7_StatusFollowsUpstreamOutcome ==
    /\ pxPc = "responded" => pxResp.kind # "none" /\ pxResp.status # 0
    /\ pxUp.kind # "none" =>
         /\ pxPc = "responded"
         /\ pxUp.kind = "response" =>
              /\ pxResp.status = pxUp.status
              /\ pxResp.kind \in {"upstream_content", "upstream_stream"}
         /\ pxUp.kind = "request_exception" =>
              pxResp.status = 502 /\ pxResp.kind = "json_error"
         /\ pxUp.kind = "other_exception" =>
              pxResp.status = 500 /\ pxResp.kind = "json_error"

\* An upstream error status has been relayed to the caller.
C7_Witness ==
    /\ pxPc = "responded"
    /\ pxUp.kind = "response"
    /\ pxUp.status = 404
    /\ pxResp.status = 404

(***************************************************************************)
(* Claims about the fixed-upstream handlers.                               *)
(***************************************************************************)
\* The parts of C5 that do not depend on the body of an OK response: an
\* upstream response that is not OK is answered with an error object and
\* the upstream's status code, an exception of the upstream call with 500
\* and an error object, and get_users answers 500 without an upstream call
\* when DOMINO_PROJECT_ID is empty.
RelaysErrors ==
    /\ crPc # "idle" => Len(crCalls) <= 1
    /\ (crPc # "idle" /\ crReq.handler = "get_users" /\ DOMINO_PROJECT_ID = "")
          => /\ crPc = "responded"
             /\ crCalls = <<>>
             /\ crResp = [status |-> 500, json |-> [shape |-> "error", of |-> ""]]
    /\ crUp.kind # "none" =>
         /\ crPc = "responded"
         /\ Len(crCalls) = 1
         /\ crUp.kind \in {"request_exception", "other_exception"}
              => crResp.status = 500 /\ crResp.json.shape = "error"
         /\ (crUp.kind = "response" /\ crUp.status \in {404, 503})
              => crResp.status = crUp.status /\ crResp.json.shape = "error"

OkResponded == crUp.kind = "response" /\ crUp.status \in {200, 201}

Answers200 ==
    /\ crResp.status = 200
    /\ crResp.json.shape \in {"relay", "users", "success"}
    /\ crResp.json.of = crUp.body

Answers500 == crResp.status = 500 /\ crResp.json.shape = "error"

\* C5 as stated: with the above, an OK response is answered 200 with JSON
\* derived from its body, unless the body is not valid JSON, which is
\* answered 500.
C5_OkJsonIsAnswered200 ==
    /\ RelaysErrors
    /\ (OkResponded /\ crUp.body \notin {"not json", ""}) => Answers200
    /\ (OkResponded /\ crUp.body = "not json") => Answers500

\* The bodies of an OK response that a handler can read: an object whose
\* 'data', if present, has a length (get_policies, get_bundles); an array of
\* objects or an empty object (get_users); any JSON, or no content
\* (update_stage_assignee).
ReadableBody(handler, body) ==
    \/ handler \in {"get_policies", "get_bundles"} /\ body \in {"{}", "{data:[]}"}
    \/ handler = "get_users" /\ body \in {"[]", "[{}]", "{}"}
    \/ handler = "update_stage_assignee" /\ body # "not json"

\* C5, amended: an upstream response that is not OK is answered with an
\* error object and the upstream's status code; an OK response whose body
\* the handler can read is answered 200 with JSON derived from it; an
\* exception of the upstream call, and an OK response whose body is not
\* valid JSON or is JSON of a shape the handler cannot read, is answered
\* 500 with an error object; get_users answers 500 without an upstream call
\* when DOMINO_PROJECT_ID is empty.
C5_RelaysJsonOrError ==
    /\ RelaysErrors
    /\ (OkResponded /\ ReadableBody(crReq.handler, crUp.body)) => Answers200
    /\ (OkResponded /\ ~ReadableBody(crReq.handler, crUp.body)) => Answers500

\* get_users has answered an OK upstream array of objects with 200.
C5_Witness ==
    /\ crPc = "responded"
    /\ crReq.handler = "get_users"
    /\ crUp.kind = "response"
    /\ crUp.status = 201
    /\ crUp.body = "[{}]"
    /\ crResp.status = 200

UpdateCallIs(call, payload) ==
    /\ call.method = "PATCH"
    /\ call.url = <<"api", "governance", "v1", "bundles", crReq.bundle_id,
                    "stages", crReq.stage_id>>
    /\ call.payload = payload

BothTruthy(body) ==
    /\ body.assigneeId \notin {Absent, ""}
    /\ body.assigneeName \notin {Absent, ""}

ClaimedPayload(body) ==
    IF BothTruthy(body)
      THEN [assignee |-> [id |-> body.assigneeId, name |-> body.assigneeName]]
      ELSE [assignee |-> [id |-> "<null>", name |-> "<null>"]]

\* C10 as stated: every PUT is forwarded as exactly one PATCH to the stage's
\* fixed path, with the assignee object as payload if and only if both
\* fields are truthy and null in every other case.
C10_EveryPutIsOnePatch ==
    (crPc # "idle" /\ crReq.handler = "update_stage_assignee") =>
        /\ Len(crCalls) = 1
        /\ UpdateCallIs(crCalls[1], ClaimedPayload(crReq.body))

\* C10, amended: when get_json returns a JSON object or a falsy value (or
\* None for a request without a JSON body), the PUT is forwarded as exactly
\* one PATCH to the stage's fixed path with the same ids, whose payload is
\* the assignee object if and only if both fields are truthy and null
\* otherwise; when get_json raises or returns a truthy value that is not an
\* object, no PATCH is made and the answer is 500.
C10_PutIsOnePatchWhenBodyReadable ==
    (crPc # "idle" /\ crReq.handler = "update_stage_assignee") =>
        IF \/ crReq.body.kind \in {"object", "falsy"}
           \/ crReq.body.kind = "absent" /\ ~crReq.absentRaises
          THEN /\ Len(crCalls) = 1
               /\ UpdateCallIs(crCalls[1], ClaimedPayload(crReq.body))
          ELSE /\ crCalls = <<>>
               /\ crPc = "responded"
               /\ crResp.status = 500

\* A PUT naming both fields has been forwarded with the assignee object.
C10_Witness ==
    /\ crReq.handler = "update_stage_assignee"
    /\ Len(crCalls) = 1
    /\ crCalls[1].payload = [assignee |-> [id |-> "u1", name |-> "Ann"]]
    /\ crCalls[1].url[5] = "b2"

====
